---------------------------- MODULE Spec2Model ----------------------------
(***************************************************************************)
(* Model of network_analyzer.py: the NS2 trace parser (parse_trace_file),  *)
(* the six metric reducers and the part of main() that drives them; and of *)
(* extract_comparison_data of protocol_analyzer.py.                        *)
(*                                                                         *)
(* Representation of numbers.  Times are Python floats in seconds; here a  *)
(* time is an integer number of hundredths of a second, so 0.05 s is 5 and *)
(* the default throughput interval 0.1 s is 10.  A quotient the code       *)
(* computes with "/" is kept exact as a reduced fraction [num, den]; the   *)
(* rounding of binary floating point is not modelled.  Event times are     *)
(* non-negative, as NS2 writes them.                                       *)
(***************************************************************************)
EXTENDS Integers, Sequences, FiniteSets, TLC

VARIABLES
    entry,              \* the function that was called: "main", "reducers" (the six reducers in
                        \* main()'s order), "interleaved" (the six reducers stepped in any
                        \* order) or "extract_comparison_data"
    file,               \* the trace file: a sequence of lines, or NoSuchFile
    events,             \* the list parse_trace_file returned / the reducers are given
    pc,                 \* position in main() (lines 252-332)
    stdout,             \* the messages printed so far
    exit_code,          \* the argument of sys.exit, or -1 while none was called
    throughput_result,  \* (times, throughput) of calculate_throughput, or the exception it raised
    packet_loss_ratio,  \* result of calculate_packet_loss
    delays,             \* result of calculate_end_to_end_delay
    node_activity,      \* result of analyze_node_activity
    queue_delays,       \* result of analyze_queueing_delay
    protocol_overhead,  \* result of analyze_protocol_overhead
    report,             \* the statistics main() writes to the output file
    frames,             \* the local variables of the reducers whose loops are stepped one by one
    comparison_data     \* the dictionary extract_comparison_data builds and returns

vars == <<entry, file, events, pc, stdout, exit_code, throughput_result,
          packet_loss_ratio, delays, node_activity, queue_delays, protocol_overhead,
          report, frames, comparison_data>>

-----------------------------------------------------------------------------
(* Bounds of the model *)

\* longest event sequence handed to the reducers
MaxEvents == 3
\* longest trace file (in lines) handed to main()
MaxLines == 3

-----------------------------------------------------------------------------
(* Arithmetic helpers *)

RECURSIVE GCD(_, _)
GCD(a, b) == IF b = 0 THEN a ELSE GCD(b, a % b)

Abs(n) == IF n < 0 THEN -n ELSE n

\* the exact value of the Python expression n / d (d > 0), as a reduced fraction
Frac(n, d) ==
    LET g == GCD(Abs(n), d)
    IN  [num |-> n \div g, den |-> d \div g]

\* the Python literal 0 returned by the reducers' default branches
Zero == [num |-> 0, den |-> 1]

RECURSIVE SumSeq(_)
SumSeq(s) == IF s = <<>> THEN 0 ELSE Head(s) + SumSeq(Tail(s))

\* the keys in decreasing order
RECURSIVE Sorted_Descending(_)
Sorted_Descending(S) ==
    IF S = {} THEN <<>>
    ELSE LET m == CHOOSE x \in S : \A y \in S : y <= x
         IN  <<m>> \o Sorted_Descending(S \ {m})

\* sorted(keys): the elements of a finite set of integers in increasing order
RECURSIVE Sorted(_)
Sorted(S) ==
    IF S = {} THEN <<>>
    ELSE LET m == CHOOSE x \in S : \A y \in S : x <= y
         IN  <<m>> \o Sorted(S \ {m})

\* max(...) over a non-empty set of integers
MaxOf(S) == CHOOSE x \in S : \A y \in S : y <= x

\* all sequences over U of length 0..n
SeqsUpTo(U, n) == UNION {[1..k -> U] : k \in 0..n}

\* hundredths of a second per second: the unit in which the model keeps event['time']
UnitsPerSecond == 100


-----------------------------------------------------------------------------
(* Program constants *)

\* the source node of end-to-end delay (event['from_node'] == 0)
SourceNode == 0
\* the destination node of end-to-end delay (event['to_node'] == 1)
DestNode == 1
\* len(parts) < 12: the least number of fields of a trace line
MinFields == 12
\* calculate_throughput's default interval=0.1 s, in hundredths of a second
DefaultInterval == 10

-----------------------------------------------------------------------------
(* Trace lines and their parsing (parse_trace_file, lines 19-52) *)

\* float(s) for the tokens of the model: the time in hundredths of a second.
\* A token outside the table makes float() raise ValueError.
FloatLiteral ==
    ("0" :> 0) @@ ("0.0" :> 0) @@ ("0.05" :> 5) @@ ("0.3" :> 30) @@ ("1" :> 100)
    @@ ("1.0" :> 100) @@ ("1.25" :> 125)

\* int(s) for the tokens of the model.  A token outside the table ("0.05",
\* "abc", "x") makes int() raise ValueError.
IntLiteral ==
    ("0" :> 0) @@ ("1" :> 1) @@ ("2" :> 2) @@ ("3" :> 3) @@ ("7" :> 7) @@ ("8" :> 8)
    @@ ("100" :> 100) @@ ("200" :> 200)

\* tokens whose first character is '#'
HashTokens == {"#", "#trace"}

\* the comment test left out: a comment goes on to the field count
StartsWithHash_Never(line) == FALSE

\* line.startswith('#'): the raw line, before strip(), begins with '#'
StartsWithHash(line) ==
    /\ ~line.lead
    /\ line.parts # <<>>
    /\ line.parts[1] \in HashTokens

\* the conversions of lines 35-45 all succeed on parts
FieldsParse(parts) ==
    /\ parts[2] \in DOMAIN FloatLiteral
    /\ \A k \in {3, 4, 6, 8, 11, 12} : parts[k] \in DOMAIN IntLiteral

\* the dict of lines 33-46
EventOf(parts) ==
    [event_type  |-> parts[1],
     time        |-> FloatLiteral[parts[2]],
     from_node   |-> IntLiteral[parts[3]],
     to_node     |-> IntLiteral[parts[4]],
     packet_type |-> parts[5],
     packet_size |-> IntLiteral[parts[6]],
     flags       |-> parts[7],
     flow_id     |-> IntLiteral[parts[8]],
     src_addr    |-> parts[9],
     dst_addr    |-> parts[10],
     seq_num     |-> IntLiteral[parts[11]],
     packet_id   |-> IntLiteral[parts[12]]]

\* one iteration of the loop of lines 25-47: "skip" (continue), "event"
\* (append) or "ValueError" (a conversion raises, leaving the loop)
LineOutcome(line) ==
    IF StartsWithHash(line) THEN "skip"
    ELSE IF Len(line.parts) < MinFields THEN "skip"
    ELSE IF ~FieldsParse(line.parts) THEN "ValueError"
    ELSE "event"

\* the for loop of lines 25-47 from line i on, acc being the list events
RECURSIVE ParseLoop(_, _, _)
ParseLoop(lines, i, acc) ==
    IF i > Len(lines) THEN [raised |-> FALSE, events |-> acc]
    ELSE LET o == LineOutcome(lines[i])
         IN  IF o = "ValueError" THEN [raised |-> TRUE, events |-> acc]
             ELSE IF o = "event" THEN ParseLoop(lines, i + 1, Append(acc, EventOf(lines[i].parts)))
             ELSE ParseLoop(lines, i + 1, acc)

\* parse_trace_file(file_path): the list returned and what is printed.  open()
\* raising (no such file) and a conversion raising are caught by the same
\* handler (lines 48-50), which prints and returns [].
parse_trace_file(f) ==
    IF ~f.exists
    THEN [events |-> <<>>, printed |-> <<"Error parsing trace file">>]
    ELSE LET r == ParseLoop(f.lines, 1, <<>>)
         IN  IF r.raised
             THEN [events |-> <<>>, printed |-> <<"Error parsing trace file">>]
             ELSE [events |-> r.events, printed |-> <<>>]

-----------------------------------------------------------------------------
(* calculate_throughput (lines 54-72) *)

\* len(np.arange(0, stop, step)) for stop >= 0, step > 0: ceil(stop / step)
ArangeLen(stop, step) == (stop + step - 1) \div step

\* int(event['time'] / interval) (line 64); times are non-negative, so the
\* truncation of int() is the floor
IntervalIdx(t, interval) == t \div interval

\* the guard against an array that stops at max_time
IdxInRange_ShortArange(idx, max_time, interval) == idx < ArangeLen(max_time, interval)

\* the guard of line 65: interval_idx < len(intervals)
IdxInRange(idx, max_time, interval) == idx < ArangeLen(max_time + interval, interval)

\* intervals[interval_idx]: the idx-th element of np.arange(0, ..., interval)
IntervalStart(idx, interval) == idx * interval

\* line 63: the events the loop accumulates
IsReceive(e) == e.event_type = "r"

\* the loop of lines 62-66 from event i on; data is the defaultdict
\* throughput_data, a function from the bucket starts that have been touched
RECURSIVE ThroughputLoop(_, _, _, _, _)
ThroughputLoop(evs, i, data, max_time, interval) ==
    IF i > Len(evs) THEN data
    ELSE LET e   == evs[i]
             idx == IntervalIdx(e.time, interval)
             key == IntervalStart(idx, interval)
             old == IF key \in DOMAIN data THEN data[key] ELSE 0
         IN  IF IsReceive(e) /\ IdxInRange(idx, max_time, interval)
             THEN ThroughputLoop(evs, i + 1,
                      [k \in DOMAIN data \cup {key} |->
                          IF k = key THEN old + e.packet_size ELSE data[k]],
                      max_time, interval)
             ELSE ThroughputLoop(evs, i + 1, data, max_time, interval)

\* bytes per second: the conversion to bits left out
BitsPerSecond_Bytes(bytes, interval) == Frac(bytes * UnitsPerSecond, interval)

\* line 70: (throughput_data[t] * 8) / interval, in bits per second
BitsPerSecond(bytes, interval) == Frac(bytes * 8 * UnitsPerSecond, interval)

\* calculate_throughput(events, interval): max() of an empty sequence raises
\* ValueError (line 58); otherwise the pair (times, throughput) of line 72
calculate_throughput(evs, interval) ==
    IF evs = <<>>
    THEN [raised |-> TRUE, times |-> <<>>, throughput |-> <<>>]
    ELSE LET max_time == MaxOf({evs[i].time : i \in DOMAIN evs})
             data     == ThroughputLoop(evs, 1, <<>>, max_time, interval)
             times    == Sorted(DOMAIN data)
         IN  [raised     |-> FALSE,
              times      |-> times,
              throughput |-> [k \in DOMAIN times |-> BitsPerSecond(data[times[k]], interval)]]

-----------------------------------------------------------------------------
(* calculate_packet_loss (lines 74-82) *)

\* sum(1 for event in events if event['event_type'] == ty)
CountType(evs, ty) == Cardinality({i \in DOMAIN evs : evs[i].event_type = ty})

\* a ratio clamped to 1
LossRatio_Clamped(packets_sent, packets_dropped) ==
    IF packets_sent = 0 THEN Zero
    ELSE IF packets_dropped > packets_sent THEN [num |-> 1, den |-> 1]
    ELSE Frac(packets_dropped, packets_sent)

\* lines 79-82
LossRatio(packets_sent, packets_dropped) ==
    IF packets_sent = 0 THEN Zero ELSE Frac(packets_dropped, packets_sent)

\* a drop counted only when an enqueue precedes it
calculate_packet_loss_AfterSend(evs) ==
    LossRatio(CountType(evs, "+"),
              Cardinality({i \in DOMAIN evs : /\ evs[i].event_type = "d"
                                              /\ \E j \in 1..(i - 1) : evs[j].event_type = "+"}))

calculate_packet_loss(evs) == LossRatio(CountType(evs, "+"), CountType(evs, "d"))

-----------------------------------------------------------------------------
(* calculate_end_to_end_delay (lines 84-101) *)

\* line 93: packet sent from source
IsSourceSend(e) == e.event_type = "+" /\ e.from_node = SourceNode

\* a receive at any node taken for a receive at the destination
IsDestReceive_AnyNode(e) == e.event_type = "r"

\* line 96: packet received at destination
IsDestReceive(e) == e.event_type = "r" /\ e.to_node = DestNode

\* the first send time of a packet id kept, later ones ignored
RecordSend_KeepFirst(packet_times, e) ==
    [p \in DOMAIN packet_times \cup {e.packet_id} |->
        IF p \in DOMAIN packet_times THEN packet_times[p] ELSE e.time]

\* line 94: packet_times[packet_id] = event['time']
RecordSend(packet_times, e) ==
    [p \in DOMAIN packet_times \cup {e.packet_id} |->
        IF p = e.packet_id THEN e.time ELSE packet_times[p]]

\* the loop with the recorded send time removed by the receive that uses it
RECURSIVE DelayLoop_ConsumesSend(_, _, _, _)
DelayLoop_ConsumesSend(evs, i, packet_times, ds) ==
    IF i > Len(evs) THEN ds
    ELSE LET e == evs[i]
         IN  IF IsSourceSend(e)
             THEN DelayLoop_ConsumesSend(evs, i + 1, RecordSend(packet_times, e), ds)
             ELSE IF IsDestReceive(e) /\ e.packet_id \in DOMAIN packet_times
             THEN DelayLoop_ConsumesSend(evs, i + 1,
                      [p \in DOMAIN packet_times \ {e.packet_id} |-> packet_times[p]],
                      Append(ds, e.time - packet_times[e.packet_id]))
             ELSE DelayLoop_ConsumesSend(evs, i + 1, packet_times, ds)

\* the loop of lines 90-99 from event i on
RECURSIVE DelayLoop(_, _, _, _)
DelayLoop(evs, i, packet_times, ds) ==
    IF i > Len(evs) THEN ds
    ELSE LET e == evs[i]
         IN  IF IsSourceSend(e)
             THEN DelayLoop(evs, i + 1, RecordSend(packet_times, e), ds)
             ELSE IF IsDestReceive(e) /\ e.packet_id \in DOMAIN packet_times
             THEN DelayLoop(evs, i + 1, packet_times,
                            Append(ds, e.time - packet_times[e.packet_id]))
             ELSE DelayLoop(evs, i + 1, packet_times, ds)

calculate_end_to_end_delay(evs) == DelayLoop(evs, 1, <<>>, <<>>)

-----------------------------------------------------------------------------
(* analyze_node_activity (lines 103-117) *)

\* the defaultdict's factory (line 105)
NoActivity == [sent |-> 0, received |-> 0, dropped |-> 0]

\* the counter set to 1 instead of incremented
Bump_SetToOne(activity, node, field) ==
    LET old == IF node \in DOMAIN activity THEN activity[node] ELSE NoActivity
    IN  [n \in DOMAIN activity \cup {node} |->
            IF n = node THEN [old EXCEPT ![field] = 1] ELSE activity[n]]

\* node_activity[node][field] += 1, creating the node's entry when absent
Bump(activity, node, field) ==
    LET old == IF node \in DOMAIN activity THEN activity[node] ELSE NoActivity
    IN  [n \in DOMAIN activity \cup {node} |->
            IF n = node THEN [old EXCEPT ![field] = @ + 1] ELSE activity[n]]

\* a receive counted at the node that sent the packet
ActivityStep_ReceiveAtSender(activity, e) ==
    IF e.event_type = "+" THEN Bump(activity, e.from_node, "sent")
    ELSE IF e.event_type = "r" THEN Bump(activity, e.from_node, "received")
    ELSE IF e.event_type = "d" THEN Bump(activity, e.from_node, "dropped")
    ELSE activity

\* a dequeue reads the counters of its node, which creates the node's entry
ActivityStep_TouchesDequeue(activity, e) ==
    IF e.event_type = "+" THEN Bump(activity, e.from_node, "sent")
    ELSE IF e.event_type = "r" THEN Bump(activity, e.to_node, "received")
    ELSE IF e.event_type = "d" THEN Bump(activity, e.from_node, "dropped")
    ELSE IF e.event_type = "-"
    THEN [n \in DOMAIN activity \cup {e.from_node} |->
             IF n \in DOMAIN activity THEN activity[n] ELSE NoActivity]
    ELSE activity

\* one iteration of the loop of lines 107-115
ActivityStep(activity, e) ==
    IF e.event_type = "+" THEN Bump(activity, e.from_node, "sent")
    ELSE IF e.event_type = "r" THEN Bump(activity, e.to_node, "received")
    ELSE IF e.event_type = "d" THEN Bump(activity, e.from_node, "dropped")
    ELSE activity

RECURSIVE ActivityLoop(_, _, _)
ActivityLoop(evs, i, activity) ==
    IF i > Len(evs) THEN activity
    ELSE ActivityLoop(evs, i + 1, ActivityStep(activity, evs[i]))

analyze_node_activity(evs) == ActivityLoop(evs, 1, <<>>)

-----------------------------------------------------------------------------
(* analyze_queueing_delay (lines 119-144) *)

\* the first enqueue time of a key kept, later ones ignored
RecordEnqueue_KeepFirst(queue_times, key, t) ==
    [k \in DOMAIN queue_times \cup {key} |->
        IF k \in DOMAIN queue_times THEN queue_times[k] ELSE t]

\* line 129: queue_times[(node, packet_id)] = event['time']
RecordEnqueue(queue_times, key, t) ==
    [k \in DOMAIN queue_times \cup {key} |-> IF k = key THEN t ELSE queue_times[k]]

\* line 134: queue_delays[node].append(delay), creating the node's list when absent
AppendDelay(qd, node, delay) ==
    LET old == IF node \in DOMAIN qd THEN qd[node] ELSE <<>>
    IN  [n \in DOMAIN qd \cup {node} |-> IF n = node THEN Append(old, delay) ELSE qd[n]]

\* the loop of lines 124-134 from event i on: the final queue_delays
RECURSIVE QueueLoop(_, _, _, _)
QueueLoop(evs, i, queue_times, qd) ==
    IF i > Len(evs) THEN qd
    ELSE LET e   == evs[i]
             key == <<e.from_node, e.packet_id>>
         IN  IF e.event_type = "+"
             THEN QueueLoop(evs, i + 1, RecordEnqueue(queue_times, key, e.time), qd)
             ELSE IF e.event_type = "-" /\ key \in DOMAIN queue_times
             THEN QueueLoop(evs, i + 1, queue_times,
                            AppendDelay(qd, e.from_node, e.time - queue_times[key]))
             ELSE QueueLoop(evs, i + 1, queue_times, qd)

\* the sum of the samples, not divided by their number
AverageDelay_Sum(ds) == IF ds # <<>> THEN Frac(SumSeq(ds), 1) ELSE Zero

\* lines 139-142: the mean of a node's samples, 0 for an empty list
AverageDelay(ds) == IF ds # <<>> THEN Frac(SumSeq(ds), Len(ds)) ELSE Zero

\* lines 136-144: one entry per key of queue_delays
analyze_queueing_delay(evs) ==
    LET qd == QueueLoop(evs, 1, <<>>, <<>>)
    IN  [n \in DOMAIN qd |-> AverageDelay(qd[n])]

-----------------------------------------------------------------------------
(* analyze_protocol_overhead (lines 221-238) *)

\* line 228: the packet types counted as data
IsData(e) == e.packet_type = "tcp"

\* lines 234-238
OverheadPercent(data_packets, control_packets) ==
    IF data_packets + control_packets = 0 THEN Zero
    ELSE Frac(control_packets * 100, data_packets + control_packets)

\* the events of every type classified, not the enqueues only
analyze_protocol_overhead_AllEvents(evs) ==
    OverheadPercent(Cardinality({i \in DOMAIN evs : IsData(evs[i])}),
                    Cardinality({i \in DOMAIN evs : ~IsData(evs[i])}))

analyze_protocol_overhead(evs) ==
    LET sentIdx == {i \in DOMAIN evs : evs[i].event_type = "+"}
    IN  OverheadPercent(Cardinality({i \in sentIdx : IsData(evs[i])}),
                        Cardinality({i \in sentIdx : ~IsData(evs[i])}))

-----------------------------------------------------------------------------
(* The statistics file written by main() (lines 281-330).  The report keeps *)
(* the values written; their formatting as text is not modelled.            *)

\* a + b and a <= b on fractions
FracAdd(a, b) == Frac(a.num * b.den + b.num * a.den, a.den * b.den)
FracLeq(a, b) == a.num * b.den <= b.num * a.den

RECURSIVE SumFrac(_)
SumFrac(s) == IF s = <<>> THEN Zero ELSE FracAdd(Head(s), SumFrac(Tail(s)))

\* max(throughput) (line 295)
MaxFrac(s) == s[CHOOSE k \in DOMAIN s : \A j \in DOMAIN s : FracLeq(s[j], s[k])]

\* lines 293-297: written only if times and throughput are not empty
ThroughputStats(tr) ==
    IF tr.times # <<>> /\ tr.throughput # <<>>
    THEN << [average |-> LET t == SumFrac(tr.throughput)
                         IN  Frac(t.num, t.den * Len(tr.throughput)),
             peak    |-> MaxFrac(tr.throughput)] >>
    ELSE <<>>

\* np.std(delays) (line 305), kept as its square, the population variance
\* (n * sum(x^2) - sum(x)^2) / n^2: the jitter is 0 exactly when this is 0
StdSquared(ds) ==
    LET n == Len(ds)
    IN  Frac(n * SumSeq([k \in DOMAIN ds |-> ds[k] * ds[k]]) - SumSeq(ds) * SumSeq(ds), n * n)

\* line 305: np.std(delays) if len(delays) > 1 else 0
JitterSquared(ds) == IF Len(ds) > 1 THEN StdSquared(ds) ELSE Zero

\* the delay statistics written only for two samples or more
DelayStats_TwoOrMore(ds) ==
    IF Len(ds) > 1
    THEN << [average        |-> Frac(SumSeq(ds), Len(ds)),
             minimum        |-> CHOOSE x \in {ds[k] : k \in DOMAIN ds} : \A k \in DOMAIN ds : x <= ds[k],
             maximum        |-> MaxOf({ds[k] : k \in DOMAIN ds}),
             jitter_squared |-> JitterSquared(ds)] >>
    ELSE <<>>

\* lines 301-310: written only if delays is not empty
DelayStats(ds) ==
    IF ds # <<>>
    THEN << [average        |-> Frac(SumSeq(ds), Len(ds)),
             minimum        |-> CHOOSE x \in {ds[k] : k \in DOMAIN ds} : \A k \in DOMAIN ds : x <= ds[k],
             maximum        |-> MaxOf({ds[k] : k \in DOMAIN ds}),
             jitter_squared |-> JitterSquared(ds)] >>
    ELSE <<>>

\* the drop ratio written only for a node that dropped something
NodeStats_RatioIfDropped(stats) ==
    [sent       |-> stats.sent,
     received   |-> stats.received,
     dropped    |-> stats.dropped,
     drop_ratio |-> IF stats.sent > 0 /\ stats.dropped > 0
                    THEN <<Frac(stats.dropped, stats.sent)>> ELSE <<>>]

\* lines 316-322: a node's counters, and its drop ratio if it sent anything
NodeStats(stats) ==
    [sent       |-> stats.sent,
     received   |-> stats.received,
     dropped    |-> stats.dropped,
     drop_ratio |-> IF stats.sent > 0 THEN <<Frac(stats.dropped, stats.sent)>> ELSE <<>>]

\* line 327: delay*1000, the average queueing delay in milliseconds
Milliseconds(delay) == Frac(delay.num * 1000, delay.den * UnitsPerSecond)

\* the values written by lines 286-327
ReportOf(evs, tr, loss, ds, activity, qd, overhead) ==
    [total_events      |-> Len(evs),
     duration          |-> MaxOf({evs[i].time : i \in DOMAIN evs}),
     active_nodes      |-> Cardinality(DOMAIN activity),
     throughput_stats  |-> ThroughputStats(tr),
     packet_loss_ratio |-> loss,
     delay_stats       |-> DelayStats(ds),
     protocol_overhead |-> overhead,
     node_stats        |-> [n \in DOMAIN activity |-> NodeStats(activity[n])],
     queueing_ms       |-> [n \in DOMAIN qd |-> Milliseconds(qd[n])]]

\* no statistics file has been written
NoReport ==
    [total_events |-> 0, duration |-> 0, active_nodes |-> 0, throughput_stats |-> <<>>,
     packet_loss_ratio |-> Zero, delay_stats |-> <<>>, protocol_overhead |-> Zero,
     node_stats |-> <<>>, queueing_ms |-> <<>>]

-----------------------------------------------------------------------------
(* Inputs: the trace files given to main() and the event sequences given to *)
(* the reducers                                                             *)

\* a trace line: whether it begins with white space, and its white-space
\* separated fields (line.strip().split())
Line(lead, parts) == [lead |-> lead, parts |-> parts]

EnqueueLine == <<"+", "0.0", "0", "1", "tcp", "100", "-------", "0", "0.0", "1.0", "0", "7">>
ReceiveLine == <<"r", "0.3", "0", "1", "tcp", "100", "-------", "0", "0.0", "1.0", "0", "7">>
DropLine    == <<"d", "0.05", "2", "1", "cbr", "200", "-------", "0", "2.0", "1.0", "1", "8", "extra">>

TraceLines ==
    { Line(FALSE, EnqueueLine),                              \* an enqueue at the source
      Line(FALSE, ReceiveLine),                              \* a receive at the destination
      Line(FALSE, [ReceiveLine EXCEPT ![2] = "1.25"]),       \* a later receive of the same packet
      Line(TRUE,  DropLine),                                 \* indented, 13 fields
      Line(FALSE, <<"#", "comment">>),                       \* a comment
      Line(FALSE, <<"#trace">> \o EnqueueLine),              \* a comment of 13 fields
      Line(FALSE, SubSeq(EnqueueLine, 1, 11)),               \* 11 fields
      Line(FALSE, <<>>),                                     \* an empty line
      Line(FALSE, [ReceiveLine EXCEPT ![2] = "abc"]),        \* time is not a number
      Line(FALSE, [EnqueueLine EXCEPT ![12] = "x"]),         \* packet id is not a number
      Line(FALSE, [EnqueueLine EXCEPT ![1] = "d"]),          \* a drop at the source
      Line(FALSE, [EnqueueLine EXCEPT ![1] = "-", ![3] = "3"]) }  \* a dequeue at node 3

TraceFile(lines) == [exists |-> TRUE, lines |-> lines]
NoSuchFile == [exists |-> FALSE, lines |-> <<>>]

TraceFiles == {TraceFile(ls) : ls \in SeqsUpTo(TraceLines, MaxLines)} \cup {NoSuchFile}

\* an event whose fields no reducer reads are fixed
Ev(ty, t, from, to, ptype, size, pid) ==
    [event_type |-> ty, time |-> t, from_node |-> from, to_node |-> to,
     packet_type |-> ptype, packet_size |-> size, flags |-> "-------", flow_id |-> 0,
     src_addr |-> "0.0", dst_addr |-> "1.0", seq_num |-> 0, packet_id |-> pid]

\* events that differ in what the counting reducers read: type, the node
\* counted and, for an enqueue, the packet type
CountingEvents ==
    {Ev("+", 0, n, 1, pt, 100, 7) : n \in {0, 2}, pt \in {"tcp", "cbr"}}
    \cup {Ev("r", 30, 0, n, "tcp", 100, 7) : n \in {1, 2}}
    \cup {Ev("d", 5, n, 1, "tcp", 100, 7) : n \in {0, 2}}
    \cup {Ev("-", 5, 0, 1, "tcp", 100, 7)}

\* enqueues at the source (twice for packet 7) and elsewhere, receives at the
\* destination and elsewhere
EndToEndEvents ==
    { Ev("+", 0, 0, 1, "tcp", 100, 7), Ev("+", 5, 0, 1, "tcp", 100, 7),
      Ev("+", 0, 0, 1, "tcp", 100, 8), Ev("+", 0, 2, 1, "tcp", 100, 7),
      Ev("r", 30, 0, 1, "tcp", 100, 7), Ev("r", 125, 0, 1, "tcp", 100, 7),
      Ev("r", 30, 0, 1, "tcp", 100, 8), Ev("r", 30, 0, 2, "tcp", 100, 7) }

\* receives in the buckets starting at 0, 10 and 20, and events that are not receives
ThroughputEvents ==
    { Ev("r", 5, 0, 1, "tcp", 100, 7), Ev("r", 5, 0, 1, "tcp", 200, 8),
      Ev("r", 10, 0, 1, "tcp", 100, 7), Ev("r", 25, 0, 1, "tcp", 200, 7),
      Ev("r", 0, 0, 1, "tcp", 0, 7),
      Ev("+", 30, 0, 1, "tcp", 100, 7), Ev("d", 5, 0, 1, "tcp", 100, 7) }

\* enqueues and dequeues at nodes 3 and 0, for packets 42 and 43
QueueEvents ==
    { Ev("+", 100, 3, 1, "tcp", 100, 42), Ev("+", 110, 3, 1, "tcp", 100, 42),
      Ev("-", 125, 3, 1, "tcp", 100, 42), Ev("-", 140, 3, 1, "tcp", 100, 42),
      Ev("-", 125, 3, 1, "tcp", 100, 43),
      Ev("+", 100, 0, 1, "tcp", 100, 42), Ev("-", 130, 0, 1, "tcp", 100, 42),
      Ev("r", 130, 0, 1, "tcp", 100, 42) }

-----------------------------------------------------------------------------
(* The state machine *)

\* the variables main() has not assigned yet
NoResults ==
    /\ stdout = <<>>
    /\ exit_code = -1
    /\ throughput_result = [raised |-> FALSE, times |-> <<>>, throughput |-> <<>>]
    /\ packet_loss_ratio = Zero
    /\ delays = <<>>
    /\ node_activity = <<>>
    /\ queue_delays = <<>>
    /\ protocol_overhead = Zero
    /\ report = NoReport

\* extract_comparison_data has not been called
NoData ==
    [protocols |-> <<>>,
     no_eve    |-> [success |-> <<>>, qber |-> <<>>, raw_key |-> <<>>, final_key |-> <<>>,
                    efficiency |-> <<>>],
     with_eve  |-> [success |-> <<>>, qber |-> <<>>, raw_key |-> <<>>, final_key |-> <<>>,
                    detection |-> <<>>]]

\* no reducer is stepped through: each call is one step
NoFrames == <<>>

\* main() is started on a trace file
Init ==
    /\ entry = "main"
    /\ file \in TraceFiles
    /\ events = <<>>
    /\ pc = "parse"
    /\ NoResults
    /\ frames = NoFrames
    /\ comparison_data = NoData

\* a caller applies the reducers, in main()'s order, to an event sequence
InitReducers(U) ==
    /\ entry = "reducers"
    /\ file = NoSuchFile
    /\ events \in SeqsUpTo(U, MaxEvents)
    /\ pc = "throughput"
    /\ NoResults
    /\ frames = NoFrames
    /\ comparison_data = NoData

InitCounting   == InitReducers(CountingEvents)
InitEndToEnd   == InitReducers(EndToEndEvents)
InitThroughput == InitReducers(ThroughputEvents)
InitQueueing   == InitReducers(QueueEvents)

\* lines 253-254
ParseTraceFile ==
    /\ pc = "parse"
    /\ LET r == parse_trace_file(file)
       IN  /\ events' = r.events
           /\ stdout' = stdout \o <<"Parsing trace file">> \o r.printed
    /\ pc' = "check"
    /\ UNCHANGED <<comparison_data, frames, report, entry, file, exit_code, throughput_result, packet_loss_ratio,
                   delays, node_activity, queue_delays, protocol_overhead>>

\* lines 256-258: if not events: print; sys.exit(1)
ExitNoEvents ==
    /\ pc = "check"
    /\ events = <<>>
    /\ stdout' = Append(stdout, "No events found in trace file.")
    /\ exit_code' = 1
    /\ pc' = "exited"
    /\ UNCHANGED <<comparison_data, frames, report, entry, file, events, throughput_result, packet_loss_ratio,
                   delays, node_activity, queue_delays, protocol_overhead>>

\* lines 256, 261: events is not empty
StartMetrics ==
    /\ pc = "check"
    /\ events # <<>>
    /\ stdout' = Append(stdout, "Calculating network performance metrics...")
    /\ pc' = "throughput"
    /\ UNCHANGED <<comparison_data, frames, report, entry, file, events, exit_code, throughput_result, packet_loss_ratio,
                   delays, node_activity, queue_delays, protocol_overhead>>

\* line 262; an exception raised inside main() is not caught there
CalculateThroughput ==
    /\ pc = "throughput"
    /\ throughput_result' = calculate_throughput(events, DefaultInterval)
    /\ pc' = IF throughput_result'.raised /\ entry = "main" THEN "crashed" ELSE "loss"
    /\ UNCHANGED <<comparison_data, frames, report, entry, file, events, stdout, exit_code, packet_loss_ratio,
                   delays, node_activity, queue_delays, protocol_overhead>>

\* line 263
CalculatePacketLoss ==
    /\ pc = "loss"
    /\ packet_loss_ratio' = calculate_packet_loss(events)
    /\ pc' = "delay"
    /\ UNCHANGED <<comparison_data, frames, report, entry, file, events, stdout, exit_code, throughput_result,
                   delays, node_activity, queue_delays, protocol_overhead>>

\* the receives that were matched are removed from the caller's list
CalculateEndToEndDelay_ConsumesEvents ==
    /\ pc = "delay"
    /\ delays' = calculate_end_to_end_delay(events)
    /\ events' = SelectSeq(events, LAMBDA e : ~IsDestReceive(e))
    /\ pc' = "activity"
    /\ UNCHANGED <<comparison_data, frames, report, entry, file, stdout, exit_code, throughput_result,
                   packet_loss_ratio, node_activity, queue_delays, protocol_overhead>>

\* line 264
CalculateEndToEndDelay ==
    /\ pc = "delay"
    /\ delays' = calculate_end_to_end_delay(events)
    /\ pc' = "activity"
    /\ UNCHANGED <<comparison_data, frames, report, entry, file, events, stdout, exit_code, throughput_result,
                   packet_loss_ratio, node_activity, queue_delays, protocol_overhead>>

\* line 265
AnalyzeNodeActivity ==
    /\ pc = "activity"
    /\ node_activity' = analyze_node_activity(events)
    /\ pc' = "queueing"
    /\ UNCHANGED <<comparison_data, frames, report, entry, file, events, stdout, exit_code, throughput_result,
                   packet_loss_ratio, delays, queue_delays, protocol_overhead>>

\* line 266
AnalyzeQueueingDelay ==
    /\ pc = "queueing"
    /\ queue_delays' = analyze_queueing_delay(events)
    /\ pc' = "overhead"
    /\ UNCHANGED <<comparison_data, frames, report, entry, file, events, stdout, exit_code, throughput_result,
                   packet_loss_ratio, delays, node_activity, protocol_overhead>>

\* line 267
AnalyzeProtocolOverhead ==
    /\ pc = "overhead"
    /\ protocol_overhead' = analyze_protocol_overhead(events)
    /\ pc' = IF entry = "main" THEN "report" ELSE "done"
    /\ UNCHANGED <<comparison_data, frames, report, entry, file, events, stdout, exit_code, throughput_result,
                   packet_loss_ratio, delays, node_activity, queue_delays>>

\* lines 269-332: the plots (not modelled) and the statistics file are written
WriteReport ==
    /\ pc = "report"
    /\ report' = ReportOf(events, throughput_result, packet_loss_ratio, delays,
                          node_activity, queue_delays, protocol_overhead)
    /\ stdout' = Append(stdout, "Analysis complete!")
    /\ pc' = "done"
    /\ UNCHANGED <<comparison_data, frames, entry, file, events, exit_code, throughput_result, packet_loss_ratio,
                   delays, node_activity, queue_delays, protocol_overhead>>

\* lines 262-267: the six reducers, one after the other
NextReducers ==
    \/ CalculateThroughput
    \/ CalculatePacketLoss
    \/ CalculateEndToEndDelay
    \/ AnalyzeNodeActivity
    \/ AnalyzeQueueingDelay
    \/ AnalyzeProtocolOverhead

Next ==
    \/ ParseTraceFile
    \/ ExitNoEvents
    \/ StartMetrics
    \/ NextReducers
    \/ WriteReport

\* main() on a trace file
Spec == Init /\ [][Next]_vars

\* the reducers on an event sequence
SpecCounting   == InitCounting   /\ [][NextReducers]_vars
SpecEndToEnd   == InitEndToEnd   /\ [][NextReducers]_vars
SpecThroughput == InitThroughput /\ [][NextReducers]_vars
SpecQueueing   == InitQueueing   /\ [][NextReducers]_vars

\* the reducers that have returned, by main()'s position
Returned(label) ==
    LET order == <<"throughput", "loss", "delay", "activity", "queueing", "overhead", "report", "done">>
        pos(l) == CHOOSE k \in DOMAIN order : order[k] = l
    IN  pc \in {order[k] : k \in DOMAIN order} /\ pos(pc) > pos(label)

-----------------------------------------------------------------------------
(* The reducers stepped one loop iteration at a time, in any interleaving *)

\* longest event sequence handed to the interleaved reducers
MaxInterleaved == 2

\* an enqueue at the source, its dequeue, its receive at the destination and
\* a drop: every reducer reads at least one of them
InterleavedEvents ==
    { Ev("+", 0, 0, 1, "tcp", 100, 7), Ev("-", 5, 0, 1, "tcp", 100, 7),
      Ev("r", 30, 0, 1, "tcp", 100, 7), Ev("d", 5, 0, 1, "cbr", 100, 7) }

\* the local variables of the six calls, each at the head of its function
InitialFrames ==
    [throughput |-> [state |-> "running", at |-> 1, throughput_data |-> <<>>],
     loss       |-> [state |-> "running", at |-> 1, packets_sent |-> 0, packets_dropped |-> 0],
     delay      |-> [state |-> "running", at |-> 1, packet_times |-> <<>>, delays |-> <<>>],
     activity   |-> [state |-> "running", at |-> 1, node_activity |-> <<>>],
     queueing   |-> [state |-> "running", at |-> 1, queue_times |-> <<>>, queue_delays |-> <<>>],
     overhead   |-> [state |-> "running", at |-> 1, data_packets |-> 0, control_packets |-> 0]]

\* the six reducers are called on one event sequence and advance in any order
InitInterleaved ==
    /\ entry = "interleaved"
    /\ file = NoSuchFile
    /\ events \in SeqsUpTo(InterleavedEvents, MaxInterleaved)
    /\ pc = "interleaved"
    /\ NoResults
    /\ frames = InitialFrames
    /\ comparison_data = NoData

\* a call that has not returned or raised
Running(name) == pc = "interleaved" /\ frames[name].state = "running"

\* lines 90-99, one iteration: the dictionary and the list after event e
DelayStep(packet_times, ds, e) ==
    IF IsSourceSend(e)
    THEN [packet_times |-> RecordSend(packet_times, e), delays |-> ds]
    ELSE IF IsDestReceive(e) /\ e.packet_id \in DOMAIN packet_times
    THEN [packet_times |-> packet_times,
          delays |-> Append(ds, e.time - packet_times[e.packet_id])]
    ELSE [packet_times |-> packet_times, delays |-> ds]

\* lines 124-134, one iteration
QueueStep(queue_times, qd, e) ==
    LET key == <<e.from_node, e.packet_id>>
    IN  IF e.event_type = "+"
        THEN [queue_times |-> RecordEnqueue(queue_times, key, e.time), queue_delays |-> qd]
        ELSE IF e.event_type = "-" /\ key \in DOMAIN queue_times
        THEN [queue_times |-> queue_times,
              queue_delays |-> AppendDelay(qd, e.from_node, e.time - queue_times[key])]
        ELSE [queue_times |-> queue_times, queue_delays |-> qd]

\* calculate_throughput: line 58 raises on no events; otherwise one
\* iteration of lines 62-66, or lines 69-72 once the loop is over
StepThroughput ==
    /\ Running("throughput")
    /\ LET f == frames.throughput
           max_time == MaxOf({events[i].time : i \in DOMAIN events})
       IN  IF events = <<>>
           THEN /\ frames' = [frames EXCEPT !.throughput.state = "raised"]
                /\ throughput_result' = [raised |-> TRUE, times |-> <<>>, throughput |-> <<>>]
           ELSE IF f.at <= Len(events)
           THEN /\ frames' = [frames EXCEPT
                       !.throughput.at = @ + 1,
                       !.throughput.throughput_data =
                           ThroughputLoop(<<events[f.at]>>, 1, @, max_time, DefaultInterval)]
                /\ UNCHANGED throughput_result
           ELSE LET times == Sorted(DOMAIN f.throughput_data)
                IN  /\ frames' = [frames EXCEPT !.throughput.state = "returned"]
                    /\ throughput_result' =
                           [raised     |-> FALSE,
                            times      |-> times,
                            throughput |-> [k \in DOMAIN times |->
                                BitsPerSecond(f.throughput_data[times[k]], DefaultInterval)]]
    /\ UNCHANGED <<comparison_data, report, entry, file, events, pc, stdout, exit_code, packet_loss_ratio,
                   delays, node_activity, queue_delays, protocol_overhead>>

\* calculate_packet_loss: the sum of line 76, the sum of line 77, lines 79-82
StepLoss ==
    /\ Running("loss")
    /\ LET f == frames.loss
       IN  IF f.at = 1
           THEN /\ frames' = [frames EXCEPT !.loss.at = 2,
                                            !.loss.packets_sent = CountType(events, "+")]
                /\ UNCHANGED packet_loss_ratio
           ELSE IF f.at = 2
           THEN /\ frames' = [frames EXCEPT !.loss.at = 3,
                                            !.loss.packets_dropped = CountType(events, "d")]
                /\ UNCHANGED packet_loss_ratio
           ELSE /\ frames' = [frames EXCEPT !.loss.state = "returned"]
                /\ packet_loss_ratio' = LossRatio(f.packets_sent, f.packets_dropped)
    /\ UNCHANGED <<comparison_data, report, entry, file, events, pc, stdout, exit_code, throughput_result,
                   delays, node_activity, queue_delays, protocol_overhead>>

\* the delay call draws its events from an iterator it shares with the
\* queueing call: an event it takes is no longer seen by the other
StepDelay_SharedIterator ==
    /\ Running("delay")
    /\ LET f == frames.delay
       IN  IF f.at <= Len(events)
           THEN LET r == DelayStep(f.packet_times, f.delays, events[f.at])
                IN  /\ frames' = [frames EXCEPT !.delay.at = @ + 1,
                                                !.delay.packet_times = r.packet_times,
                                                !.delay.delays = r.delays,
                                                !.queueing.at = @ + 1]
                    /\ UNCHANGED delays
           ELSE /\ frames' = [frames EXCEPT !.delay.state = "returned"]
                /\ delays' = f.delays
    /\ UNCHANGED <<comparison_data, report, entry, file, events, pc, stdout, exit_code, throughput_result,
                   packet_loss_ratio, node_activity, queue_delays, protocol_overhead>>

\* calculate_end_to_end_delay: one iteration of lines 90-99, or line 101
StepDelay ==
    /\ Running("delay")
    /\ LET f == frames.delay
       IN  IF f.at <= Len(events)
           THEN LET r == DelayStep(f.packet_times, f.delays, events[f.at])
                IN  /\ frames' = [frames EXCEPT !.delay.at = @ + 1,
                                                !.delay.packet_times = r.packet_times,
                                                !.delay.delays = r.delays]
                    /\ UNCHANGED delays
           ELSE /\ frames' = [frames EXCEPT !.delay.state = "returned"]
                /\ delays' = f.delays
    /\ UNCHANGED <<comparison_data, report, entry, file, events, pc, stdout, exit_code, throughput_result,
                   packet_loss_ratio, node_activity, queue_delays, protocol_overhead>>

\* analyze_node_activity: one iteration of lines 107-115, or line 117
StepActivity ==
    /\ Running("activity")
    /\ LET f == frames.activity
       IN  IF f.at <= Len(events)
           THEN /\ frames' = [frames EXCEPT
                       !.activity.at = @ + 1,
                       !.activity.node_activity = ActivityStep(@, events[f.at])]
                /\ UNCHANGED node_activity
           ELSE /\ frames' = [frames EXCEPT !.activity.state = "returned"]
                /\ node_activity' = f.node_activity
    /\ UNCHANGED <<comparison_data, report, entry, file, events, pc, stdout, exit_code, throughput_result,
                   packet_loss_ratio, delays, queue_delays, protocol_overhead>>

\* analyze_queueing_delay: one iteration of lines 124-134, or lines 136-144
StepQueueing ==
    /\ Running("queueing")
    /\ LET f == frames.queueing
       IN  IF f.at <= Len(events)
           THEN LET r == QueueStep(f.queue_times, f.queue_delays, events[f.at])
                IN  /\ frames' = [frames EXCEPT !.queueing.at = @ + 1,
                                                !.queueing.queue_times = r.queue_times,
                                                !.queueing.queue_delays = r.queue_delays]
                    /\ UNCHANGED queue_delays
           ELSE /\ frames' = [frames EXCEPT !.queueing.state = "returned"]
                /\ queue_delays' = [n \in DOMAIN f.queue_delays |->
                                       AverageDelay(f.queue_delays[n])]
    /\ UNCHANGED <<comparison_data, report, entry, file, events, pc, stdout, exit_code, throughput_result,
                   packet_loss_ratio, delays, node_activity, protocol_overhead>>

\* analyze_protocol_overhead: one iteration of lines 226-232, or lines 234-238
StepOverhead ==
    /\ Running("overhead")
    /\ LET f == frames.overhead
       IN  IF f.at <= Len(events)
           THEN LET e == events[f.at]
                IN  /\ frames' = [frames EXCEPT
                           !.overhead.at = @ + 1,
                           !.overhead.data_packets =
                               IF e.event_type = "+" /\ IsData(e) THEN @ + 1 ELSE @,
                           !.overhead.control_packets =
                               IF e.event_type = "+" /\ ~IsData(e) THEN @ + 1 ELSE @]
                    /\ UNCHANGED protocol_overhead
           ELSE /\ frames' = [frames EXCEPT !.overhead.state = "returned"]
                /\ protocol_overhead' = OverheadPercent(f.data_packets, f.control_packets)
    /\ UNCHANGED <<comparison_data, report, entry, file, events, pc, stdout, exit_code, throughput_result,
                   packet_loss_ratio, delays, node_activity, queue_delays>>

\* any call that is still running takes its next step
NextInterleaved ==
    \/ StepThroughput
    \/ StepLoss
    \/ StepDelay
    \/ StepActivity
    \/ StepQueueing
    \/ StepOverhead

SpecInterleaved == InitInterleaved /\ [][NextInterleaved]_vars

\* the call has returned (not raised) in the interleaved run
Done(name) == entry = "interleaved" /\ frames[name].state = "returned"

-----------------------------------------------------------------------------
(* extract_comparison_data (protocol_analyzer.py, lines 71-179) *)

\* longest comparison file, in lines
MaxContent == 5

\* the sequence of n copies of v
Repeat(v, n) == [k \in 1..n |-> v]

\* line 92
default_protocols == <<"BB84", "B92", "E91">>

\* lines 103-107 and 159-163: the defaults of 'with_eve' for n protocols;
\* the QBER is kept in hundredths (0.20 is 20)
DefaultWithEve(n) ==
    [success   |-> Repeat(FALSE, n),
     qber      |-> Repeat(20, n),
     raw_key   |-> Repeat(500, n),
     final_key |-> Repeat(0, n),
     detection |-> Repeat(TRUE, n)]

\* lines 93-107: data after the defaults are filled in; QBER and efficiency
\* are kept in hundredths (0.05 is 5, 50.0 is 5000)
DefaultData ==
    [protocols |-> default_protocols,
     no_eve    |-> [success    |-> Repeat(TRUE, Len(default_protocols)),
                    qber       |-> Repeat(5, Len(default_protocols)),
                    raw_key    |-> Repeat(500, Len(default_protocols)),
                    final_key  |-> Repeat(400, Len(default_protocols)),
                    efficiency |-> Repeat(5000, Len(default_protocols))],
     with_eve  |-> DefaultWithEve(Len(default_protocols))]

\* the literal headers of the patterns of lines 118 and 142
NoEveHeader   == <<"---", "Performance", "Without", "Eavesdropping", "---">>
WithEveHeader == <<"---", "Performance", "With", "Eavesdropping", "---">>

\* the line holds the characters "---"
HasDashes(line) == \E k \in DOMAIN line.parts : line.parts[k] \in {"---", "----------"}

\* re.search(header + r"\n(.*?)---", content, re.DOTALL): the lines between
\* the first header line and the next "---", as a one-element sequence, or
\* <<>> for no match (no header, or no "---" after it)
SectionOf(lines, header) ==
    LET hs == {h \in DOMAIN lines : lines[h].parts = header}
    IN  IF hs = {} THEN <<>>
        ELSE LET h  == CHOOSE x \in hs : \A y \in hs : x <= y
                 ts == {t \in (h + 1)..Len(lines) : HasDashes(lines[t])}
             IN  IF ts = {} THEN <<>>
                 ELSE << SubSeq(lines, h + 1, (CHOOSE x \in ts : \A y \in ts : x <= y) - 1) >>

\* the tokens of the model made of word characters only (\w+)
WordTokens == {"BB84", "B92", "E91", "Yes", "No", "Detected", "None", "500", "400", "0"}
\* the tokens that match [0-9.]+ and those that match [0-9]+
NumberTokens == {"0.05", "0.2", "1.2.3", "50.0", "500", "400", "0"}
DigitTokens == {"500", "400", "0"}

\* float(s) in hundredths; "1.2.3" matches [0-9.]+ but makes float() raise
ComparisonFloat ==
    ("0.05" :> 5) @@ ("0.2" :> 20) @@ ("50.0" :> 5000) @@ ("500" :> 50000)
    @@ ("400" :> 40000) @@ ("0" :> 0)

\* int(s) for the tokens that match [0-9]+
ComparisonInt == ("500" :> 500) @@ ("400" :> 400) @@ ("0" :> 0)

\* what (\w+) captures at the start of a token: the digits before the first
\* point of a number ("50.0" gives "50"), a word whole
WordPrefix(tok) ==
    IF tok \in {"0.05", "0.2"} THEN "0"
    ELSE IF tok = "1.2.3" THEN "1"
    ELSE IF tok = "50.0" THEN "50"
    ELSE tok

\* the first five groups of both patterns: name | Yes/No | number | digits | digits |
FiveGroups(parts) ==
    /\ Len(parts) = 11
    /\ \A k \in {2, 4, 6, 8, 10} : parts[k] = "|"
    /\ parts[1] \in WordTokens
    /\ parts[3] \in {"Yes", "No"}
    /\ parts[5] \in NumberTokens
    /\ parts[7] \in DigitTokens
    /\ parts[9] \in DigitTokens

\* the pattern of line 122 (last group [0-9.]+) and that of line 146 (last
\* group \w+, which also matches the leading digits of a number)
IsNoEveRow(line)   == FiveGroups(line.parts) /\ line.parts[11] \in NumberTokens
IsWithEveRow(line) == FiveGroups(line.parts) /\ line.parts[11] \in WordTokens \cup NumberTokens

\* re.findall: the tuples of groups of the matching lines of the section
NoEveRows(section) ==
    LET rows == SelectSeq(section, IsNoEveRow)
    IN  [k \in DOMAIN rows |-> LET p == rows[k].parts
                               IN  <<p[1], p[3], p[5], p[7], p[9], p[11]>>]

WithEveRows(section) ==
    LET rows == SelectSeq(section, IsWithEveRow)
    IN  [k \in DOMAIN rows |-> LET p == rows[k].parts
                               IN  <<p[1], p[3], p[5], p[7], p[9], WordPrefix(p[11])>>]

\* lines 133-139 from row k on: the appends made until a float() raises
RECURSIVE NoEveLoop(_, _, _)
NoEveLoop(rows, k, d) ==
    IF k > Len(rows) THEN [data |-> d, raised |-> FALSE]
    ELSE LET line == rows[k]
             d1 == [d EXCEPT !.protocols = Append(@, line[1]),
                             !.no_eve.success = Append(@, line[2] = "Yes")]
         IN  IF line[3] \notin DOMAIN ComparisonFloat
             THEN [data |-> d1, raised |-> TRUE]
             ELSE LET d2 == [d1 EXCEPT !.no_eve.qber = Append(@, ComparisonFloat[line[3]]),
                                       !.no_eve.raw_key = Append(@, ComparisonInt[line[4]]),
                                       !.no_eve.final_key = Append(@, ComparisonInt[line[5]])]
                  IN  IF line[6] \notin DOMAIN ComparisonFloat
                      THEN [data |-> d2, raised |-> TRUE]
                      ELSE NoEveLoop(rows, k + 1,
                               [d2 EXCEPT !.no_eve.efficiency =
                                              Append(@, ComparisonFloat[line[6]])])

\* lines 126-131: the lists of 'protocols' and 'no_eve' emptied
ResetNoEve(d) ==
    [d EXCEPT !.protocols = <<>>,
              !.no_eve = [success |-> <<>>, qber |-> <<>>, raw_key |-> <<>>,
                          final_key |-> <<>>, efficiency |-> <<>>]]

\* lines 150-163: 'with_eve' refilled with defaults, one per protocol, if
\* there is any protocol
ResetWithEve(d) ==
    IF d.protocols # <<>> THEN [d EXCEPT !.with_eve = DefaultWithEve(Len(d.protocols))] ELSE d

\* lines 165-173 from row k on: the assignments made until a float() raises
RECURSIVE WithEveLoop(_, _, _)
WithEveLoop(rows, k, d) ==
    IF k > Len(rows) THEN [data |-> d, raised |-> FALSE]
    ELSE LET line == rows[k]
             known == \E i \in DOMAIN d.protocols : d.protocols[i] = line[1]
             idx == CHOOSE i \in DOMAIN d.protocols :
                        /\ d.protocols[i] = line[1]
                        /\ \A j \in 1..(i - 1) : d.protocols[j] # line[1]
         IN  IF ~known THEN WithEveLoop(rows, k + 1, d)
             ELSE LET d1 == [d EXCEPT !.with_eve.success[idx] = (line[2] = "Yes")]
                  IN  IF line[3] \notin DOMAIN ComparisonFloat
                      THEN [data |-> d1, raised |-> TRUE]
                      ELSE WithEveLoop(rows, k + 1,
                               [d1 EXCEPT !.with_eve.qber[idx] = ComparisonFloat[line[3]],
                                          !.with_eve.raw_key[idx] = ComparisonInt[line[4]],
                                          !.with_eve.final_key[idx] = ComparisonInt[line[5]],
                                          !.with_eve.detection[idx] = (line[6] = "Detected")])

\* a line of the comparison table: name | Yes/No | QBER | raw | final | last
Row(name, ok, qber, raw, final, last) ==
    Line(FALSE, <<name, "|", ok, "|", qber, "|", raw, "|", final, "|", last>>)

\* the two headers, a closing line, rows of both tables and a row whose
\* QBER is not a number
ComparisonLines ==
    { Line(FALSE, NoEveHeader),
      Line(FALSE, WithEveHeader),
      Line(FALSE, <<"---", "End", "---">>),
      Row("BB84", "Yes", "0.05", "500", "400", "50.0"),
      Row("B92", "Yes", "1.2.3", "500", "400", "50.0"),
      Row("BB84", "No", "0.2", "500", "0", "Detected"),
      Row("B92", "Yes", "0.05", "500", "400", "None") }

ComparisonFiles ==
    {NoSuchFile} \cup {TraceFile(lines) : lines \in SeqsUpTo(ComparisonLines, MaxContent)}

\* extract_comparison_data(comparison_file) is called
InitComparison ==
    /\ entry = "extract_comparison_data"
    /\ file \in ComparisonFiles
    /\ events = <<>>
    /\ pc = "defaults"
    /\ NoResults
    /\ frames = NoFrames
    /\ comparison_data = NoData

\* lines 73-107
FillDefaults ==
    /\ pc = "defaults"
    /\ comparison_data' = DefaultData
    /\ pc' = "exists"
    /\ UNCHANGED <<frames, report, entry, file, events, stdout, exit_code, throughput_result,
                   packet_loss_ratio, delays, node_activity, queue_delays, protocol_overhead>>

\* lines 110-112: the file does not exist
ComparisonFileMissing ==
    /\ pc = "exists"
    /\ ~file.exists
    /\ stdout' = Append(stdout, "Warning: Comparison file not found. Using default values.")
    /\ pc' = "returned"
    /\ UNCHANGED <<comparison_data, frames, report, entry, file, events, exit_code,
                   throughput_result, packet_loss_ratio, delays, node_activity, queue_delays,
                   protocol_overhead>>

\* lines 114-139; an exception leaves the loop for the handler of lines
\* 175-179, which prints and returns data as it is
ReadNoEveSection ==
    /\ pc = "exists"
    /\ file.exists
    /\ LET m == SectionOf(file.lines, NoEveHeader)
           r == IF m = <<>> THEN [data |-> comparison_data, raised |-> FALSE]
                ELSE NoEveLoop(NoEveRows(m[1]), 1, ResetNoEve(comparison_data))
       IN  /\ comparison_data' = r.data
           /\ stdout' = IF r.raised
                        THEN stdout \o <<"Error processing comparison file",
                                         "Using default values for plots.">>
                        ELSE stdout
           /\ pc' = IF r.raised THEN "returned" ELSE "with_eve"
    /\ UNCHANGED <<frames, report, entry, file, events, exit_code, throughput_result,
                   packet_loss_ratio, delays, node_activity, queue_delays, protocol_overhead>>

\* lines 141-179
ReadWithEveSection ==
    /\ pc = "with_eve"
    /\ LET m == SectionOf(file.lines, WithEveHeader)
           r == IF m = <<>> THEN [data |-> comparison_data, raised |-> FALSE]
                ELSE WithEveLoop(WithEveRows(m[1]), 1, ResetWithEve(comparison_data))
       IN  /\ comparison_data' = r.data
           /\ stdout' = IF r.raised
                        THEN stdout \o <<"Error processing comparison file",
                                         "Using default values for plots.">>
                        ELSE stdout
    /\ pc' = "returned"
    /\ UNCHANGED <<frames, report, entry, file, events, exit_code, throughput_result,
                   packet_loss_ratio, delays, node_activity, queue_delays, protocol_overhead>>

NextComparison ==
    \/ FillDefaults
    \/ ComparisonFileMissing
    \/ ReadNoEveSection
    \/ ReadWithEveSection

\* extract_comparison_data on a comparison file
SpecComparison == InitComparison /\ [][NextComparison]_vars

-----------------------------------------------------------------------------
(* Claims *)

\* the number of events of type ty in the sequence the reducers were given
NumEvents(ty) == Cardinality({i \in DOMAIN events : events[i].event_type = ty})

\* the sequence evs rearranged by the permutation p of its indices
Permuted(evs, p) == [i \in DOMAIN evs |-> evs[p[i]]]

\* C1: calculate_packet_loss returns (number of 'd' events) / (number of '+'
\* events), 0 when there is no '+' event, and does not clamp the value: with
\* more drops than enqueues the ratio is greater than 1.
C1_LossIsDroppedOverSent ==
    Returned("loss") =>
        /\ packet_loss_ratio.den > 0
        /\ NumEvents("+") = 0 => packet_loss_ratio = Zero
        /\ NumEvents("+") > 0 =>
               packet_loss_ratio.num * NumEvents("+") = NumEvents("d") * packet_loss_ratio.den

\* more drops than enqueues: the ratio returned is greater than 1
C1_Witness ==
    /\ Returned("loss")
    /\ NumEvents("+") > 0
    /\ NumEvents("d") > NumEvents("+")
    /\ packet_loss_ratio.num > packet_loss_ratio.den

\* the destination receives that find a send recorded: an enqueue at the
\* source with the same packet id earlier in the pass
RecordedSends(i) ==
    {j \in 1..(i - 1) : /\ events[j].event_type = "+"
                        /\ events[j].from_node = 0
                        /\ events[j].packet_id = events[i].packet_id}

MatchedReceives ==
    {i \in DOMAIN events : /\ events[i].event_type = "r"
                           /\ events[i].to_node = 1
                           /\ RecordedSends(i) # {}}

C3_CountsPermutationInvariant ==
    pc = "done" =>
        \A p \in Permutations(DOMAIN events) :
            /\ calculate_packet_loss(Permuted(events, p)) = packet_loss_ratio
            /\ analyze_protocol_overhead(Permuted(events, p)) = protocol_overhead
            /\ analyze_node_activity(Permuted(events, p)) = node_activity

\* three different events (an enqueue of a control packet, a drop, a receive)
\* at two nodes: six distinct orders, all with loss 1, overhead 100
C3_Witness ==
    /\ pc = "done"
    /\ Len(events) = 3
    /\ Cardinality({events[i].event_type : i \in DOMAIN events}) = 3
    /\ packet_loss_ratio = [num |-> 1, den |-> 1]
    /\ protocol_overhead = [num |-> 100, den |-> 1]
    /\ Cardinality(DOMAIN node_activity) = 2

\* the samples of a delay list, as a set
Samples(ds) == {ds[k] : k \in DOMAIN ds}

\* C4: for every permutation of the event sequence the set of end-to-end
\* delay samples is the same; a destination receive that precedes its
\* enqueue at the source in the input still yields its sample.
C4_DelaySetPermutationInvariant ==
    pc = "done" =>
        \A p \in Permutations(DOMAIN events) :
            Samples(calculate_end_to_end_delay(Permuted(events, p))) = Samples(delays)

\* the lines of the file that are not comments, have 12 fields or more and
\* whose numeric fields are numbers
IsValidLine(line) ==
    /\ ~StartsWithHash(line)
    /\ Len(line.parts) >= 12
    /\ line.parts[2] \in DOMAIN FloatLiteral
    /\ \A k \in {3, 4, 6, 8, 11, 12} : line.parts[k] \in DOMAIN IntLiteral

\* the lines that are not comments and have 12 fields or more
HasTwelveFields(line) == ~StartsWithHash(line) /\ Len(line.parts) >= 12

\* C5: a non-comment line of 12 fields or more with a non-numeric numeric
\* field is skipped alone: the events of all the valid lines of the file,
\* before and after it, are returned.
C5_BadLineSkippedAlone ==
    (file.exists /\ pc # "parse") =>
        LET valid == SelectSeq(file.lines, IsValidLine)
        IN  /\ Len(events) = Len(valid)
            /\ \A k \in DOMAIN valid : events[k] = EventOf(valid[k].parts)

\* C6: parse_trace_file returns exactly one event per line that does not
\* start with '#' and has at least 12 fields, in file order; comment lines
\* and shorter lines are dropped without affecting the events of other lines.
C6_OneEventPerLongLine ==
    (file.exists /\ pc # "parse") =>
        LET long == SelectSeq(file.lines, HasTwelveFields)
        IN  /\ Len(events) = Len(long)
            /\ \A k \in DOMAIN long : events[k].event_type = long[k].parts[1]

\* the start of the bucket of width w that holds time t: floor(t / w) * w
BucketStart(t, w) == (t \div w) * w

\* the bytes of the receive events whose time falls in the bucket starting at b
ReceivedBytesIn(b) ==
    LET InBucket(e) == e.event_type = "r" /\ BucketStart(e.time, 10) = b
        recv == SelectSeq(events, InBucket)
    IN  SumSeq([k \in DOMAIN recv |-> recv[k].packet_size])

\* the starts of the buckets that hold a receive event
ReceiveBuckets ==
    {BucketStart(events[i].time, 10) : i \in {j \in DOMAIN events : events[j].event_type = "r"}}

\* the rate reported for the bucket starting at b, Zero when b is not reported
RateOf(b) ==
    LET r == throughput_result
    IN  IF \E k \in DOMAIN r.times : r.times[k] = b
        THEN r.throughput[CHOOSE k \in DOMAIN r.times : r.times[k] = b]
        ELSE Zero

\* C7: calculate_throughput attributes packet_size * 8 bits of every 'r'
\* event to the bucket starting at floor(time / interval) * interval and
\* reports for each bucket its bits divided by the bucket width (0.1 s: the
\* rate times 10 hundredths equals the bits times 100); events of other types
\* contribute nothing.
C7_BitsOfReceivesPerBucket ==
    (Returned("throughput") /\ events # <<>>) =>
        /\ ~throughput_result.raised
        /\ \A b \in ReceiveBuckets :
               /\ \E k \in DOMAIN throughput_result.times : throughput_result.times[k] = b
               /\ RateOf(b).num * 10 = ReceivedBytesIn(b) * 8 * 100 * RateOf(b).den

\* receives of 100 and 200 bytes at t = 0.05: 24000 bits/s for the bucket at 0
C7_Witness ==
    /\ Returned("throughput")
    /\ events = << Ev("r", 5, 0, 1, "tcp", 100, 7), Ev("r", 5, 0, 1, "tcp", 200, 8) >>
    /\ throughput_result.times = <<0>>
    /\ throughput_result.throughput = << [num |-> 24000, den |-> 1] >>

\* C8: the series of calculate_throughput is in strictly increasing order of
\* bucket start whatever the order of the events, has one rate per time, the
\* i-th rate being that of the i-th time's bucket, and holds a bucket only if
\* a receive event falls in it.
C8_SeriesSortedAndSparse ==
    (Returned("throughput") /\ events # <<>>) =>
        LET r == throughput_result
        IN  /\ Len(r.times) = Len(r.throughput)
            /\ \A k \in 1..(Len(r.times) - 1) : r.times[k] < r.times[k + 1]
            /\ \A k \in DOMAIN r.times :
                   /\ r.times[k] \in ReceiveBuckets
                   /\ r.throughput[k].num * 10
                          = ReceivedBytesIn(r.times[k]) * 8 * 100 * r.throughput[k].den

\* receives given latest first, and a last event (an enqueue at t = 0.3) that
\* is no receive: buckets 0 and 20 in increasing order, none at 10 or 30
C8_Witness ==
    /\ Returned("throughput")
    /\ events = << Ev("r", 25, 0, 1, "tcp", 200, 7), Ev("+", 30, 0, 1, "tcp", 100, 7),
                   Ev("r", 5, 0, 1, "tcp", 100, 7) >>
    /\ throughput_result.times = <<0, 20>>
    /\ throughput_result.throughput = << [num |-> 8000, den |-> 1], [num |-> 16000, den |-> 1] >>

\* the enqueues of the same (node, packet id) that precede the dequeue i
EarlierEnqueues(i) ==
    {j \in 1..(i - 1) : /\ events[j].event_type = "+"
                        /\ events[j].from_node = events[i].from_node
                        /\ events[j].packet_id = events[i].packet_id}

\* the dequeues at node n that follow an enqueue of their packet at n
MatchedDequeues(n) ==
    {i \in DOMAIN events : /\ events[i].event_type = "-"
                           /\ events[i].from_node = n
                           /\ EarlierEnqueues(i) # {}}

\* the queueing-delay sample of the matched dequeue i
QueueSample(i) == events[i].time - events[MaxOf(EarlierEnqueues(i))].time

RECURSIVE SumOfSamples(_)
SumOfSamples(S) ==
    IF S = {} THEN 0
    ELSE LET i == CHOOSE x \in S : TRUE IN QueueSample(i) + SumOfSamples(S \ {i})

\* the nodes that enqueue or dequeue
QueueNodes ==
    {events[i].from_node : i \in {j \in DOMAIN events : events[j].event_type \in {"+", "-"}}}

\* C9: an enqueue at node n of packet p at t1 followed by a dequeue at n of
\* p at t2 yields the sample t2 - t1 for n (t1 being the enqueue recorded for
\* (n, p) when the dequeue is met), the value of a node is the arithmetic mean
\* of its samples, and a dequeue of a (node, packet) never enqueued at that
\* node contributes no sample to any node.
C9_MeanOfMatchedPairs ==
    Returned("queueing") =>
        \A n \in DOMAIN queue_delays \cup QueueNodes :
            MatchedDequeues(n) # {} =>
                /\ n \in DOMAIN queue_delays
                /\ queue_delays[n].den > 0
                /\ queue_delays[n].num * Cardinality(MatchedDequeues(n))
                       = SumOfSamples(MatchedDequeues(n)) * queue_delays[n].den

\* the spec's example (enqueue at node 3 of packet 42 at 1.0, dequeue at 1.25)
\* and a dequeue at node 3 of packet 43, never enqueued: the mean is 0.25 s
C9_Witness ==
    /\ Returned("queueing")
    /\ events = << Ev("+", 100, 3, 1, "tcp", 100, 42), Ev("-", 125, 3, 1, "tcp", 100, 42),
                   Ev("-", 125, 3, 1, "tcp", 100, 43) >>
    /\ queue_delays = (3 :> [num |-> 25, den |-> 1])

\* C10: a node with no matched enqueue/dequeue pair (it only enqueues, or its
\* dequeues match no enqueue) is present in the result of
\* analyze_queueing_delay with the value 0.
C10_UnmatchedNodeReportsZero ==
    Returned("queueing") =>
        \A n \in QueueNodes :
            MatchedDequeues(n) = {} => (n \in DOMAIN queue_delays /\ queue_delays[n] = Zero)

\* the nodes named by an event of the sequence
EventNodes ==
    {events[i].from_node : i \in DOMAIN events} \cup {events[i].to_node : i \in DOMAIN events}

\* the number of events of type ty whose field f ("from_node" or "to_node") is n
NumAt(ty, f, n) ==
    Cardinality({i \in DOMAIN events : events[i].event_type = ty /\ events[i][f] = n})

\* a node's counters in node_activity, all 0 for a node it has no entry for
ActivityOf(n) == IF n \in DOMAIN node_activity THEN node_activity[n] ELSE NoActivity

\* C11: in the result of analyze_node_activity, for every node n, sent[n] is
\* the number of '+' events with from_node = n, received[n] the number of
\* 'r' events with to_node = n and dropped[n] the number of 'd' events with
\* from_node = n; '-' events change no counter (a node met in '-' events only
\* has no entry).
C11_NodeCounters ==
    Returned("activity") =>
        /\ \A n \in EventNodes \cup DOMAIN node_activity :
               /\ ActivityOf(n).sent = NumAt("+", "from_node", n)
               /\ ActivityOf(n).received = NumAt("r", "to_node", n)
               /\ ActivityOf(n).dropped = NumAt("d", "from_node", n)
        /\ \A n \in DOMAIN node_activity :
               NumAt("+", "from_node", n) + NumAt("r", "to_node", n) + NumAt("d", "from_node", n) > 0

\* node 0 enqueues and dequeues, node 1 receives a packet sent by node 0
C11_Witness ==
    /\ Returned("activity")
    /\ NumEvents("-") = 1
    /\ node_activity = (0 :> [sent |-> 1, received |-> 0, dropped |-> 0])
                       @@ (1 :> [sent |-> 0, received |-> 1, dropped |-> 0])

\* the '+' events of the sequence whose packet type is tcp / is not tcp
NumSent(isTcp) ==
    Cardinality({i \in DOMAIN events : /\ events[i].event_type = "+"
                                       /\ (events[i].packet_type = "tcp") = isTcp})

\* C12: analyze_protocol_overhead looks at '+' events only, counts those of
\* packet type 'tcp' as data and the others as control, and returns
\* control / (control + data) * 100, 0 when there is no '+' event; '-', 'r'
\* and 'd' events never change the result.
C12_OverheadOfEnqueues ==
    Returned("overhead") =>
        /\ protocol_overhead.den > 0
        /\ NumEvents("+") = 0 => protocol_overhead = Zero
        /\ NumEvents("+") > 0 =>
               protocol_overhead.num * (NumSent(TRUE) + NumSent(FALSE))
                   = NumSent(FALSE) * 100 * protocol_overhead.den

\* one data and one control enqueue among events of another type: 50 percent
C12_Witness ==
    /\ Returned("overhead")
    /\ NumSent(TRUE) = 1
    /\ NumSent(FALSE) = 1
    /\ Len(events) = 3
    /\ protocol_overhead = [num |-> 50, den |-> 1]

\* the first character of the line is '#'
IsCommentLine(line) ==
    ~line.lead /\ Len(line.parts) > 0 /\ line.parts[1] \in {"#", "#trace"}

\* the file exists and each of its lines is a comment (an empty file too)
OnlyComments == file.exists /\ \A i \in DOMAIN file.lines : IsCommentLine(file.lines[i])

\* C14: for an empty file or a file of comment lines only, parse_trace_file
\* returns the empty event sequence and no exception escapes it: it returns
\* normally, its handler not entered (nothing but main()'s own message is
\* printed).
C14_EmptyOrCommentsParseToNothing ==
    (OnlyComments /\ pc # "parse") =>
        /\ events = <<>>
        /\ pc \in {"check", "exited"}
        /\ stdout[1] = "Parsing trace file"
        /\ \A k \in DOMAIN stdout : stdout[k] # "Error parsing trace file"

\* a file of two comments, one of them of 13 fields, has been parsed
C14_Witness ==
    /\ OnlyComments
    /\ pc = "check"
    /\ Len(file.lines) = 2
    /\ \E i \in DOMAIN file.lines : Len(file.lines[i].parts) >= 12
    /\ events = <<>>

\* C15: no condition ends the process: when a trace yields zero events the
\* no-data result is handed on and the program is neither ended (sys.exit)
\* nor does it die of an exception.
C15_ZeroEventsNotFatal ==
    file.exists =>
        /\ exit_code = -1
        /\ pc \notin {"exited", "crashed"}

\* C16: when the trace file cannot be opened, what parse_trace_file hands to
\* its caller differs from what it hands over after reading a trace with
\* zero events.
C16_OpenFailureDistinguishable ==
    (~file.exists /\ pc # "parse") =>
        events # parse_trace_file(TraceFile(<<>>)).events

\* min(...) over a non-empty set of integers
MinOf(S) == CHOOSE x \in S : \A y \in S : x <= y

\* C17 as stated: when a packet id has more than one '+' event from the
\* source node, every delay sample of that packet is measured from the first
\* such enqueue of the sequence.
C17_MeasuredFromFirstEnqueue ==
    Returned("delay") =>
        LET recv == Sorted(MatchedReceives)
        IN  \A k \in DOMAIN recv :
                delays[k] = events[recv[k]].time - events[MinOf(RecordedSends(recv[k]))].time

\* C17 as amended: when a packet id has more than one '+' event from the
\* source node, each enqueue overwrites the recorded send time, so a delay
\* sample of that packet is measured from the last such enqueue that
\* precedes the receive in the sequence.
C17_MeasuredFromLastEnqueue ==
    Returned("delay") =>
        LET recv == Sorted(MatchedReceives)
        IN  /\ Len(delays) = Len(recv)
            /\ \A k \in DOMAIN recv :
                   LET sends == RecordedSends(recv[k])
                   IN  Cardinality(sends) > 1 =>
                           /\ delays[k] = events[recv[k]].time - events[MaxOf(sends)].time
                           /\ \A j \in sends :
                                  events[j].time # events[MaxOf(sends)].time =>
                                      delays[k] # events[recv[k]].time - events[j].time

\* packet 7 enqueued at the source at 0.0 and again at 0.05, received at 0.3:
\* the sample is 0.25 s, not 0.3 s
C17_Witness ==
    /\ Returned("delay")
    /\ events = << Ev("+", 0, 0, 1, "tcp", 100, 7), Ev("+", 5, 0, 1, "tcp", 100, 7),
                   Ev("r", 30, 0, 1, "tcp", 100, 7) >>
    /\ delays = <<25>>

\* the enqueues at node s of the packet of event i that precede it
SendsFrom(s, i) ==
    {j \in 1..(i - 1) : /\ events[j].event_type = "+"
                        /\ events[j].from_node = s
                        /\ events[j].packet_id = events[i].packet_id}

\* the delay samples for the source node s and the destination node d: one
\* per receive at d whose packet was enqueued at s before it
DelaysFor(s, d) ==
    LET recv == Sorted({i \in DOMAIN events : /\ events[i].event_type = "r"
                                              /\ events[i].to_node = d
                                              /\ SendsFrom(s, i) # {}})
    IN  [k \in DOMAIN recv |-> events[recv[k]].time - events[MaxOf(SendsFrom(s, recv[k]))].time]

\* C18: the source and the destination node of end-to-end delay are
\* parameters: for any chosen pair (source_node, destination_node) the delay
\* samples returned are those of the enqueues at source_node and the
\* receives at destination_node, 0 and 1 being only the default.
C18_EndpointsConfigurable ==
    Returned("delay") =>
        \A s \in EventNodes, d \in EventNodes : delays = DelaysFor(s, d)

\* C19: the per-node average queueing delays of every permutation of the
\* event sequence equal those of the sequence: a dequeue met before the
\* enqueue of its (node, packet id) is still paired with it.
C19_QueueingPermutationInvariant ==
    pc = "done" =>
        \A p \in Permutations(DOMAIN events) :
            analyze_queueing_delay(Permuted(events, p)) = queue_delays

\* C20: in the report the delay statistics (average, minimum, maximum,
\* jitter) are present exactly when the delay-sample list is not empty, they
\* are those of the list, and the jitter is 0 when the list has fewer than 2
\* samples.
C20_DelayStatsWhenSamples ==
    pc = "done" /\ entry = "main" =>
        /\ (report.delay_stats # <<>>) <=> (delays # <<>>)
        /\ delays # <<>> =>
               LET st == report.delay_stats[1]
               IN  /\ Len(report.delay_stats) = 1
                   /\ st.average.num * Len(delays) = SumSeq(delays) * st.average.den
                   /\ \E k \in DOMAIN delays : st.minimum = delays[k]
                   /\ \E k \in DOMAIN delays : st.maximum = delays[k]
                   /\ \A k \in DOMAIN delays : st.minimum <= delays[k] /\ delays[k] <= st.maximum
                   /\ Len(delays) < 2 => st.jitter_squared = Zero

\* a trace with one delay sample (0.3 s): the statistics are written, jitter 0
C20_Witness ==
    /\ pc = "done"
    /\ entry = "main"
    /\ delays = <<30>>
    /\ report.delay_stats = << [average |-> [num |-> 30, den |-> 1], minimum |-> 30,
                                maximum |-> 30, jitter_squared |-> Zero] >>

\* C21: in the report a node's drop ratio is dropped / sent and is present
\* exactly when the node sent something; for a node that sent nothing the
\* ratio is omitted (no division by its zero send count is made).
C21_DropRatioWhenSent ==
    pc = "done" /\ entry = "main" =>
        \A n \in DOMAIN report.node_stats :
            LET st == report.node_stats[n]
                sent == NumAt("+", "from_node", n)
                dropped == NumAt("d", "from_node", n)
            IN  /\ (st.drop_ratio # <<>>) <=> (sent > 0)
                /\ sent > 0 =>
                       /\ Len(st.drop_ratio) = 1
                       /\ st.drop_ratio[1].num * sent = dropped * st.drop_ratio[1].den
                       /\ st.drop_ratio[1].den > 0

\* node 0 sent one packet and dropped one (ratio 1), node 2 only dropped one
\* (no ratio)
C21_Witness ==
    /\ pc = "done"
    /\ entry = "main"
    /\ 0 \in DOMAIN report.node_stats /\ 2 \in DOMAIN report.node_stats
    /\ report.node_stats[0].sent = 1
    /\ report.node_stats[0].dropped = 1
    /\ report.node_stats[0].drop_ratio = << [num |-> 1, den |-> 1] >>
    /\ report.node_stats[2].sent = 0
    /\ report.node_stats[2].dropped = 1
    /\ report.node_stats[2].drop_ratio = <<>>

\* C22: the six reducers share no mutable state: stepped in any order, with
\* their loop iterations interleaved in any way, each returns (or raises)
\* what it returns when run alone on the same event sequence.
C22_InterleavingKeepsResults ==
    entry = "interleaved" =>
        /\ frames.throughput.state = "raised" => calculate_throughput(events, DefaultInterval).raised
        /\ Done("throughput") => throughput_result = calculate_throughput(events, DefaultInterval)
        /\ Done("loss") => packet_loss_ratio = calculate_packet_loss(events)
        /\ Done("delay") => delays = calculate_end_to_end_delay(events)
        /\ Done("activity") => node_activity = analyze_node_activity(events)
        /\ Done("queueing") => queue_delays = analyze_queueing_delay(events)
        /\ Done("overhead") => protocol_overhead = analyze_protocol_overhead(events)

\* on an enqueue followed by its dequeue, the queueing call has returned its
\* sample (0.05 s at node 0) although the delay call, started before it, is
\* still in its loop and the activity call has not made a step
C22_Witness ==
    /\ entry = "interleaved"
    /\ Len(events) = 2
    /\ events[1].event_type = "+" /\ events[2].event_type = "-"
    /\ frames.delay.state = "running" /\ frames.delay.at = 2
    /\ frames.activity.at = 1
    /\ Done("queueing")
    /\ queue_delays = (0 :> [num |-> 5, den |-> 1])

\* C23: no reducer modifies the event sequence: over every step of every
\* reducer the list of events and every field of every event stay as they
\* were.
C23_ReducersLeaveEventsAlone == [][events' = events]_vars

\* the six reducers have returned on a sequence of three events that holds a
\* receive at the destination, an enqueue and a drop
C23_Witness ==
    /\ entry = "reducers"
    /\ pc = "done"
    /\ Len(events) = 3
    /\ events[1].event_type = "r" /\ events[1].to_node = DestNode
    /\ events[2].event_type = "+"
    /\ events[3].event_type = "d"
    /\ node_activity # <<>>

\* C24: every reducer applied to the empty event sequence returns a defined
\* empty or zero result without raising: an empty throughput series, loss 0,
\* an empty delay list, an empty node activity, empty queueing delays and
\* overhead 0.
C24_EmptySequenceDefined ==
    entry = "reducers" /\ events = <<>> =>
        /\ Returned("throughput") =>
               throughput_result = [raised |-> FALSE, times |-> <<>>, throughput |-> <<>>]
        /\ Returned("loss") => packet_loss_ratio = Zero
        /\ Returned("delay") => delays = <<>>
        /\ Returned("activity") => node_activity = <<>>
        /\ Returned("queueing") => queue_delays = <<>>
        /\ Returned("overhead") => protocol_overhead = Zero

\* the dequeue i follows more than one enqueue of its (node, packet id)
RepeatedlyEnqueued(i) == Cardinality(EarlierEnqueues(i)) > 1

\* C25: when the same (node, packet id) is enqueued more than once before
\* its dequeue, the last enqueue wins: a node whose only matched dequeue
\* follows several enqueues of its packet reports the time from the most
\* recent of them to the dequeue, the earlier enqueue times being discarded.
C25_LastEnqueueWins ==
    Returned("queueing") =>
        \A n \in QueueNodes : \A i \in MatchedDequeues(n) :
            (MatchedDequeues(n) = {i} /\ RepeatedlyEnqueued(i)) =>
                LET last == CHOOSE j \in EarlierEnqueues(i) :
                                \A k \in EarlierEnqueues(i) : k <= j
                IN  /\ n \in DOMAIN queue_delays
                    /\ queue_delays[n] = [num |-> events[i].time - events[last].time, den |-> 1]

\* packet 42 is enqueued at node 3 at 1.0 and again at 1.1, and dequeued at
\* 1.25: the delay is 0.15 s, not 0.25 s
C25_Witness ==
    /\ Returned("queueing")
    /\ events = << Ev("+", 100, 3, 1, "tcp", 100, 42), Ev("+", 110, 3, 1, "tcp", 100, 42),
                   Ev("-", 125, 3, 1, "tcp", 100, 42) >>
    /\ queue_delays = (3 :> [num |-> 15, den |-> 1])

\* the bytes of all the receive events
TotalReceivedBytes ==
    LET recv == SelectSeq(events, LAMBDA e : e.event_type = "r")
    IN  SumSeq([k \in DOMAIN recv |-> recv[k].packet_size])

\* C26: calculate_throughput loses no receive event: the bucket of every 'r'
\* event passes the guard and is reported, so that the sum over the buckets
\* of rate * interval (the rates summed, times 10 hundredths of a second)
\* equals 8 times the total packet_size of the 'r' events (times 100).
C26_NoReceiveLost ==
    (Returned("throughput") /\ events # <<>>) =>
        LET r == throughput_result
            total == SumFrac(r.throughput)
        IN  /\ ~r.raised
            /\ \A i \in DOMAIN events :
                   events[i].event_type = "r" =>
                       \E k \in DOMAIN r.times : r.times[k] = BucketStart(events[i].time, 10)
            /\ total.num * 10 = 8 * TotalReceivedBytes * 100 * total.den

\* a receive at the latest time of the trace, on the boundary of the last
\* bucket (t = 0.1), is kept: 100 bytes in each of the buckets at 0 and 0.1
C26_Witness ==
    /\ Returned("throughput")
    /\ events = << Ev("r", 5, 0, 1, "tcp", 100, 7), Ev("r", 10, 0, 1, "tcp", 100, 7) >>
    /\ throughput_result.times = <<0, 10>>
    /\ throughput_result.throughput = << [num |-> 8000, den |-> 1], [num |-> 8000, den |-> 1] >>

\* the sum over the nodes of S of a counter of node_activity
RECURSIVE SumOverNodes(_, _)
SumOverNodes(S, field) ==
    IF S = {} THEN 0
    ELSE LET n == CHOOSE x \in S : TRUE
         IN  node_activity[n][field] + SumOverNodes(S \ {n}, field)

\* C27: in the result of analyze_node_activity the sum over all nodes of
\* sent equals the number of '+' events, the sum of dropped the number of
\* 'd' events and the sum of received the number of 'r' events.
C27_CountersSumToEventCounts ==
    Returned("activity") =>
        /\ SumOverNodes(DOMAIN node_activity, "sent") = NumEvents("+")
        /\ SumOverNodes(DOMAIN node_activity, "dropped") = NumEvents("d")
        /\ SumOverNodes(DOMAIN node_activity, "received") = NumEvents("r")

\* two enqueues at node 0 and one at node 2: the sent counters 2 and 1 sum to
\* the three '+' events
C27_Witness ==
    /\ Returned("activity")
    /\ Len(events) = 3
    /\ NumEvents("+") = 3
    /\ DOMAIN node_activity = {0, 2}
    /\ node_activity[0].sent = 2
    /\ node_activity[2].sent = 1

\* the receives at the destination node
DestReceives ==
    {i \in DOMAIN events : events[i].event_type = "r" /\ events[i].to_node = 1}

\* the receives at the destination of packet p that follow an enqueue of p
\* at the source
ReceivesAfterSend(p) ==
    {i \in DestReceives : /\ events[i].packet_id = p
                          /\ \E j \in 1..(i - 1) : /\ events[j].event_type = "+"
                                                   /\ events[j].from_node = 0
                                                   /\ events[j].packet_id = p}

\* C28: a recorded send time is not consumed by a receive: the number of
\* delay samples is the number of destination receives that follow a source
\* enqueue of their packet id (k such receives of one packet give k samples)
\* and never exceeds the number of receives at the destination.
C28_SendNotConsumed ==
    Returned("delay") =>
        LET ids == {events[i].packet_id : i \in DOMAIN events}
            matched == UNION {ReceivesAfterSend(p) : p \in ids}
        IN  /\ Len(delays) = Cardinality(matched)
            /\ Len(delays) <= Cardinality(DestReceives)

\* packet 7 is enqueued once at the source and received twice at the
\* destination, at 0.3 and 1.25: two samples
C28_Witness ==
    /\ Returned("delay")
    /\ events = << Ev("+", 0, 0, 1, "tcp", 100, 7), Ev("r", 30, 0, 1, "tcp", 100, 7),
                   Ev("r", 125, 0, 1, "tcp", 100, 7) >>
    /\ delays = <<30, 125>>

\* the nodes that are the from_node of a '+' or 'd' event or the to_node of
\* an 'r' event
CountedNodes ==
    {events[i].from_node : i \in {j \in DOMAIN events : events[j].event_type \in {"+", "d"}}}
    \cup {events[i].to_node : i \in {j \in DOMAIN events : events[j].event_type = "r"}}

\* C29: the active-node count of the report is the number of distinct nodes
\* that are the from_node of a '+' or 'd' event or the to_node of an 'r'
\* event; a node met only in '-' events, or only as the to_node of an
\* enqueue, is not counted.
C29_ActiveNodesCounted ==
    pc = "done" /\ entry = "main" =>
        /\ report.active_nodes = Cardinality(CountedNodes)
        /\ DOMAIN report.node_stats = CountedNodes

\* an enqueue from node 0 to node 1, a dequeue at node 3 and a drop at node
\* 2: four nodes are named, two are counted
C29_Witness ==
    /\ pc = "done"
    /\ entry = "main"
    /\ EventNodes = {0, 1, 2, 3}
    /\ \E i \in DOMAIN events : events[i].event_type = "-" /\ events[i].from_node = 3
    /\ \E i \in DOMAIN events : events[i].event_type = "+" /\ events[i].to_node = 1
    /\ report.active_nodes = 2

\* the lengths of the ten per-protocol lists of comparison_data
ListLengths ==
    {Len(comparison_data.no_eve[f]) :
         f \in {"success", "qber", "raw_key", "final_key", "efficiency"}}
    \cup {Len(comparison_data.with_eve[f]) :
              f \in {"success", "qber", "raw_key", "final_key", "detection"}}

\* C30: whatever the content of the comparison file (missing, one section
\* only, a section with no matching row, rows for unknown protocols), every
\* per-protocol list under 'no_eve' and 'with_eve' of the dictionary
\* extract_comparison_data returns is as long as its 'protocols' list.
C30_ListsMatchProtocols ==
    (entry = "extract_comparison_data" /\ pc = "returned") =>
        ListLengths = {Len(comparison_data.protocols)}

=============================================================================
